---- MODULE Spec2Model ----
(***************************************************************************)
(* Model of the earthquake reverse-geocoding pipeline                      *)
(* (scripts/enrich_eq_locations.py, scripts/pipeline_utils.py).            *)
(*                                                                         *)
(* Geometry.  Events, polygons and populated places live on one meridian:  *)
(* a position is a latitude step 0..MaxPos, a polygon is the set of steps  *)
(* it covers, a place is a step.  One step is UnitM metres in EPSG:3857    *)
(* (the CRS of every sjoin_nearest) and UnitHav tenths of a kilometre of   *)
(* great-circle distance (the distance _haversine_km measures).            *)
(*                                                                         *)
(* Frames.  A (Geo)DataFrame is a sequence of rows; a row is a record.  A  *)
(* missing string is NA, a missing distance NoDist, a missing position     *)
(* NoPos, a missing text NoText.  A location text is the sequence of its   *)
(* comma-separated segments; Render gives the string.                      *)
(***************************************************************************)
EXTENDS Integers, Sequences, FiniteSets, TLC

VARIABLES
    eq,          \* the input batch eq_gdf: rows [epiid, pos]
    admin0,      \* the country layer _load_admin0 returned
    admin1,      \* the admin-region layer _load_admin1 returned
    cities,      \* the populated-place working set _load_cities returned
    hasIso0,     \* "iso_a2" is a column of admin0
    hasIso1,     \* "iso_a2" is a column of admin1
    merged,      \* the working frame of enrich_geocoding
    pc,          \* position in enrich_geocoding / enrich_and_format
    near_city,   \* the nearest-place frame of enrich_geocoding
    hist,        \* pc value |-> the working frame when that position was reached
    out,         \* the frame enrich_geocoding returned
    enriched,    \* the frame enrich_and_format returned
    missing,     \* the reference layers whose file does not exist
    err,         \* the exception that left enrich_geocoding, "" for none
    fellback,    \* the primary nearest-place lookup raised
    theta,       \* the bearing handed to _bearing_to_cardinal_8 / _16, in 1/100 degree
    resolution,  \* 8 or 16: which of the two is called
    label,       \* the compass label returned
    file,        \* the features of the GeoJSON on disk
    existing,    \* the features on disk before the last append_to_geojson
    new_df,      \* the rows handed to the last append_to_geojson
    places,      \* the rows of cities1000.txt handed to _load_cities
    call,        \* a call of one of the helper functions: its name and arguments
    ret          \* the value that call returned

vars == <<eq, admin0, admin1, cities, hasIso0, hasIso1, merged, near_city, pc, hist, out,
          enriched, missing, err, fellback, theta, resolution, label, file, existing,
          new_df, places, call, ret>>

(* ------------------------------ bounds -------------------------------- *)
MaxPos == 3
MaxBatch == 2
MaxLayer == 2

(* ------------------------------ values -------------------------------- *)
NA == "NaN"
NoDist == -1
NoPos == -1
NoText == <<>>

Pos == 0..MaxPos
Epiids == 1..MaxBatch

\* metres of EPSG:3857 per step, tenths of a great-circle km per step
UnitM == 75 * 1000
UnitHav == 636

Abs(x) == IF x < 0 THEN -x ELSE x

Min(S) == CHOOSE x \in S : \A y \in S : x <= y

\* sequences over a finite set, of length at most n, without repetition
RECURSIVE InjSeqs(_, _)
InjSeqs(S, n) ==
    IF n = 0 THEN {<<>>}
    ELSE LET shorter == InjSeqs(S, n - 1)
         IN  shorter \cup {Append(s, x) : s \in {t \in shorter : Len(t) = n - 1},
                                          x \in S}

Distinct(s) == \A i, j \in DOMAIN s : i # j => s[i] # s[j]

RECURSIVE FlatMap(_, _)
FlatMap(F(_), s) == IF s = <<>> THEN <<>> ELSE F(Head(s)) \o FlatMap(F, Tail(s))

Map(F(_), s) == [i \in DOMAIN s |-> F(s[i])]

(* --------------------------- reference data --------------------------- *)
CountryPool ==
    { [country |-> "Israel", iso_a2 |-> "IL", cells |-> {0, 1}],
      [country |-> "Cyprus", iso_a2 |-> "CY", cells |-> {1, 2}] }

Admin1Pool ==
    { [admin1 |-> "Northern", iso_a2 |-> "IL", cells |-> {0, 1}],
      [admin1 |-> NA,         iso_a2 |-> "CY", cells |-> {1, 2}] }

\* a missing population (Int64 <NA>)
NoPop == -1

\* rows of data/external/places/cities1000.txt
PlacesPool ==
    { [name |-> "Haifa",  country_code |-> "IL", pos |-> 0,
       feature_class |-> "P", population |-> 1000],
      [name |-> "Paphos", country_code |-> "CY", pos |-> 2,
       feature_class |-> "P", population |-> 500],
      [name |-> "Kfar",   country_code |-> "IL", pos |-> 1,
       feature_class |-> "P", population |-> 499],
      [name |-> "Khirbe", country_code |-> "CY", pos |-> 3,
       feature_class |-> "P", population |-> NoPop],
      [name |-> "Meron",  country_code |-> "IL", pos |-> 1,
       feature_class |-> "T", population |-> 5000],
      [name |-> "Eilat",  country_code |-> "IL", pos |-> 3,
       feature_class |-> "P", population |-> 2000] }

MinPopulation == 500

\* the population filter left out
load_cities_unfiltered(raw, min_population) ==
    LET kept == SelectSeq(raw, LAMBDA r : r.feature_class = "P")
    IN  [i \in DOMAIN kept |->
            [name |-> kept[i].name, country_code |-> kept[i].country_code,
             pos |-> kept[i].pos, population |-> kept[i].population]]

\* _load_cities: feature_class == "P" and population.fillna(0) >= min_population,
\* then the columns of line 124 (feature_class is not among them)
load_cities(raw, min_population) ==
    LET fillna0(x) == IF x = NoPop THEN 0 ELSE x
        kept == SelectSeq(raw, LAMBDA r : r.feature_class = "P"
                                          /\ fillna0(r.population) >= min_population)
    IN  [i \in DOMAIN kept |->
            [name |-> kept[i].name, country_code |-> kept[i].country_code,
             pos |-> kept[i].pos, population |-> kept[i].population]]

\* data/external/eez as fetch_geodata.py downloads it; no other code reads it
EezLayer == << [country |-> "Cyprus", cells |-> {2, 3}] >>

\* row.get(col): the value of a column, null when the frame has no such column
Get(row, col, null) == IF col \in DOMAIN row THEN row[col] ELSE null

Layers(pool) == {s \in InjSeqs(pool, MaxLayer) : Distinct(s)}

Batches ==
    {s \in InjSeqs([epiid : Epiids, pos : Pos], MaxBatch) :
        \A i, j \in DOMAIN s : i # j => s[i].epiid # s[j].epiid}

(* ----------------------- spatial utility functions -------------------- *)
\* bearings are in hundredths of a degree; on one meridian dlam = 0, so
\* atan2(0, sin(phi2 - phi1)) is 0 for phi2 >= phi1 and 180 otherwise
bearing_deg(lat1, lat2) == IF lat2 >= lat1 THEN 0 ELSE 180 * 100

dirs16 ==
    << "N", "NNE", "NE", "ENE", "E", "ESE", "SE", "SSE",
       "S", "SSW", "SW", "WSW", "W", "WNW", "NW", "NNW" >>

\* sectors starting at their direction instead of centred on it
bearing_to_cardinal_16_uncentred(bearing) == dirs16[((bearing \div 2250) % 16) + 1]

bearing_to_cardinal_16(bearing) == dirs16[(((bearing + 1125) \div 2250) % 16) + 1]

dirs8 == << "N", "NE", "E", "SE", "S", "SW", "W", "NW" >>

bearing_to_cardinal_8(bearing) == dirs8[(((bearing + 2250) \div 4500) % 8) + 1]

\* tenths of a kilometre
haversine_km(lat1, lat2) == Abs(lat2 - lat1) * UnitHav

\* int(round(x)) of a value given in tenths: Python rounds halves to even
RoundKm(t) ==
    LET q == t \div 10
        r == t % 10
    IN  IF r > 5 THEN q + 1
        ELSE IF r < 5 THEN q
        ELSE IF q % 2 = 0 THEN q ELSE q + 1

\* EPSG:3857 distance from a point to a polygon, 0 inside it
PolyDistM(p, f) == Min({Abs(p - c) : c \in f.cells}) * UnitM

PointDistM(p, c) == Abs(p - c.pos) * UnitM

(* ------------------------------- joins -------------------------------- *)
\* gpd.sjoin(eq, layer, how="left", predicate="within") for one point: the
\* matching features in layer order, or one all-null match
Within(layer, p) == SelectSeq(layer, LAMBDA f : p \in f.cells)

\* the first feature taken whatever its distance
FirstIdx(ds) == IF ds = <<>> THEN 0 ELSE 1

\* gpd.sjoin_nearest + sort_values([epiid, dist]) + drop_duplicates(keep="first")
\* for one point, given its distance to every feature in layer order: index
\* of the first feature at minimum distance; 0 for an empty layer (no match:
\* the right-hand columns are null)
NearestIdx(ds) ==
    IF ds = <<>> THEN 0
    ELSE CHOOSE i \in DOMAIN ds :
            \A j \in DOMAIN ds : ds[i] < ds[j] \/ (ds[i] = ds[j] /\ i <= j)

NearestCountry(p) ==
    LET i == NearestIdx([k \in DOMAIN admin0 |-> PolyDistM(p, admin0[k])])
    IN  IF i = 0 THEN NA ELSE admin0[i].country

NearestAdmin1(p) ==
    LET i == NearestIdx([k \in DOMAIN admin1 |-> PolyDistM(p, admin1[k])])
    IN  IF i = 0 THEN NA ELSE admin1[i].admin1

J1Rows(e) ==
    LET m == Within(admin1, e.pos)
    IN  IF m = <<>> THEN << [epiid |-> e.epiid, pos |-> e.pos, admin1 |-> NA] >>
        ELSE [i \in DOMAIN m |-> [epiid |-> e.epiid, pos |-> e.pos, admin1 |-> m[i].admin1]]

J0Rows(e) ==
    LET m == Within(admin0, e.pos)
    IN  IF m = <<>> THEN << [epiid |-> e.epiid, country |-> NA] >>
        ELSE [i \in DOMAIN m |-> [epiid |-> e.epiid, country |-> m[i].country]]

\* the merge without its key: every j1 row paired with every j0 row
MergeRowsCross(j1, j0) ==
    LET Pair(l) == [i \in DOMAIN j0 |-> l @@ [country |-> j0[i].country]]
    IN  FlatMap(Pair, j1)

\* j1.merge(j0, on="epiid", how="left"): every pairing of a j1 row with the
\* j0 rows of its epiid, in j1 order
MergeRows(j1, j0) ==
    LET Pair(l) ==
            LET rs == SelectSeq(j0, LAMBDA r : r.epiid = l.epiid)
            IN  [i \in DOMAIN rs |-> l @@ [country |-> rs[i].country]]
    IN  FlatMap(Pair, j1)

SjoinMerge(batch) == MergeRows(FlatMap(J1Rows, batch), FlatMap(J0Rows, batch))

(* --------------------- enrich_geocoding, step by step ----------------- *)
\* the flag taken after the fill instead of before it
FillCountryRowFlagAfterFill(r) ==
    LET filled == IF r.country = NA THEN NearestCountry(r.pos) ELSE r.country
    IN  [r EXCEPT !.country = filled] @@ [offshore |-> (filled = NA)]

\* lines 207-237: offshore flag recorded before the nearest-country fill
FillCountryRow(r) ==
    [r EXCEPT !.country = IF @ = NA THEN NearestCountry(r.pos) ELSE @]
        @@ [offshore |-> (r.country = NA)]

\* lines 239-267
FillAdmin1Row(r) ==
    [r EXCEPT !.admin1 = IF @ = NA THEN NearestAdmin1(r.pos) ELSE @]
        @@ [admin2 |-> NA]

Admin1Mapping ==
    ("Northern" :> "HaZafon") @@ ("Southern" :> "HaDarom") @@
    ("Central" :> "HaMerkaz") @@ ("Jerusalem" :> "Yerushalayim") @@
    ("Haifa" :> "Haifa") @@ ("Tel Aviv" :> "Tel Aviv")

\* the Israeli names applied whatever the country
normalize_admin1_any_country(row) ==
    IF row.admin1 = NA THEN NA
    ELSE IF row.admin1 \in DOMAIN Admin1Mapping
         THEN Admin1Mapping[row.admin1] ELSE row.admin1

normalize_admin1(row) ==
    IF row.admin1 = NA THEN NA
    ELSE IF row.country = "Israel"
         THEN IF row.admin1 \in DOMAIN Admin1Mapping
              THEN Admin1Mapping[row.admin1] ELSE row.admin1
         ELSE row.admin1

\* an empty working set answered with a placeholder place
NearCityRowPlaceholder(e) ==
    LET i == NearestIdx([k \in DOMAIN cities |-> PointDistM(e.pos, cities[k])])
    IN  IF i = 0
        THEN [epiid |-> e.epiid, name |-> "Unknown", city_pos |-> e.pos,
              country_code |-> NA, citydist_m |-> 0]
        ELSE [epiid |-> e.epiid, name |-> cities[i].name, city_pos |-> cities[i].pos,
              country_code |-> cities[i].country_code,
              citydist_m |-> PointDistM(e.pos, cities[i])]

\* lines 290-298: one nearest place per input point
NearCityRow(e) ==
    LET i == NearestIdx([k \in DOMAIN cities |-> PointDistM(e.pos, cities[k])])
    IN  IF i = 0
        THEN [epiid |-> e.epiid, name |-> NA, city_pos |-> NoPos,
              country_code |-> NA, citydist_m |-> NoDist]
        ELSE [epiid |-> e.epiid, name |-> cities[i].name, city_pos |-> cities[i].pos,
              country_code |-> cities[i].country_code,
              citydist_m |-> PointDistM(e.pos, cities[i])]

\* lines 300-318: the manual fallback takes the first candidate of the spatial
\* index; its rows carry no city_lat / city_lon and a null distance
FallbackCityRows(e) ==
    LET i == NearestIdx([k \in DOMAIN cities |-> PointDistM(e.pos, cities[k])])
    IN  IF i = 0 THEN <<>>
        ELSE << [epiid |-> e.epiid, name |-> cities[i].name,
                 country_code |-> cities[i].country_code, citydist_m |-> NoDist] >>

\* line 322: near_city[["epiid", "name", "asciiname", "city_lat", "city_lon", ...]]
\* raises KeyError when the frame has no city_lat column
SelectCityColumnsRaises(nc) == nc = <<>> \/ \E i \in DOMAIN nc : "city_pos" \notin DOMAIN nc[i]

\* lines 320-325: merged.merge(near_city[...], on="epiid", how="left")
MergeCityRows(frame, nc) ==
    LET Pair(l) ==
            LET rs == SelectSeq(nc, LAMBDA c : c.epiid = l.epiid)
            IN  IF rs = <<>>
                THEN << l @@ [nearest_city |-> NA, city_pos |-> NoPos,
                              nearest_city_iso_a2 |-> NA, citydist_m |-> NoDist] >>
                ELSE [i \in DOMAIN rs |->
                        l @@ [nearest_city |-> rs[i].name, city_pos |-> rs[i].city_pos,
                              nearest_city_iso_a2 |-> rs[i].country_code,
                              citydist_m |-> rs[i].citydist_m]]
    IN  FlatMap(Pair, frame)

\* lines 327-331: admin0.drop_duplicates("iso_a2").set_index("iso_a2")["country"]
code_to_country ==
    IF hasIso0
    THEN [c \in {admin0[i].iso_a2 : i \in DOMAIN admin0} |->
            admin0[Min({i \in DOMAIN admin0 : admin0[i].iso_a2 = c})].country]
    ELSE <<>>

OverrideLimitM == 150000

\* the threshold taken as exclusive
reconcile_country_strict(row) ==
    LET ctry == row.country
        city_iso == row.nearest_city_iso_a2
        dist_m == row.citydist_m
    IN  IF city_iso = NA \/ dist_m = NoDist THEN ctry
        ELSE IF (ctry = NA \/ (city_iso \in DOMAIN code_to_country
                               /\ ctry # code_to_country[city_iso]))
                /\ dist_m < OverrideLimitM
             THEN IF city_iso \in DOMAIN code_to_country
                  THEN code_to_country[city_iso] ELSE ctry
             ELSE ctry

\* the distance test left out
reconcile_country_any_distance(row) ==
    LET ctry == row.country
        city_iso == row.nearest_city_iso_a2
    IN  IF city_iso = NA \/ row.citydist_m = NoDist THEN ctry
        ELSE IF city_iso \in DOMAIN code_to_country
             THEN code_to_country[city_iso] ELSE ctry

reconcile_country(row) ==
    LET ctry == row.country
        city_iso == row.nearest_city_iso_a2
        dist_m == row.citydist_m
    IN  IF city_iso = NA \/ dist_m = NoDist THEN ctry
        ELSE IF (ctry = NA \/ (city_iso \in DOMAIN code_to_country
                               /\ ctry # code_to_country[city_iso]))
                /\ dist_m <= OverrideLimitM
             THEN IF city_iso \in DOMAIN code_to_country
                  THEN code_to_country[city_iso] ELSE ctry
             ELSE ctry

\* the offshore flag taken again from the country at that point
RecomputeAdmin1RowReflag(r) ==
    IF hasIso1 /\ r.admin1 = NA
    THEN [r EXCEPT !.admin1 = NearestAdmin1(r.pos), !.offshore = (r.country = NA)]
    ELSE [r EXCEPT !.offshore = (r.country = NA)]

\* lines 346-372: the per-row filter keeps every row (r if ok else r), so the
\* lookup is the unconstrained nearest feature
RecomputeAdmin1Row(r) ==
    IF hasIso1 /\ r.admin1 = NA
    THEN [r EXCEPT !.admin1 = NearestAdmin1(r.pos)]
    ELSE r

Known(x) == x # NA /\ x # ""

\* the composer without its missing-place guard
loc_text_unguarded(row) ==
    LET dist_km == haversine_km(row.pos, row.city_pos)
        card == bearing_to_cardinal_16(bearing_deg(row.pos, row.city_pos))
    IN  << ToString(RoundKm(dist_km)) \o "km" \o " " \o card \o " of " \o row.nearest_city >>

\* lines 375-408, for a given nearest-place frame
loc_text_in(row, nc) ==
    LET cr == SelectSeq(nc, LAMBDA c : c.epiid = row.epiid)
    IN  IF row.nearest_city = NA THEN NoText
        ELSE IF cr = <<>> \/ cr[1].city_pos = NoPos THEN NoText
        ELSE
          LET cy == cr[1].city_pos
              dist_km == haversine_km(row.pos, cy)
              card == bearing_to_cardinal_16(bearing_deg(row.pos, cy))
              km_txt == ToString(RoundKm(dist_km)) \o "km"
              a1 == row.admin1
              ctry == row.country
              tail == (IF Known(a1) THEN <<a1>> ELSE <<>>)
                        \o (IF Known(ctry) THEN <<ctry>> ELSE <<>>)
          IN  IF row.offshore /\ Known(a1)
              THEN << km_txt \o " " \o card \o " of " \o a1 \o " coast" >>
              ELSE IF row.offshore /\ Known(ctry)
              THEN << km_txt \o " " \o card \o " of " \o ctry \o " coast" >>
              ELSE << km_txt \o " " \o card \o " of " \o row.nearest_city >> \o tail

loc_text(row) == loc_text_in(row, near_city)

\* the returned columns extended by a maritime-zone lookup
OutRowWithEez(r) ==
    LET z == SelectSeq(EezLayer, LAMBDA f : r.pos \in f.cells)
    IN  [epiid |-> r.epiid, pos |-> r.pos, admin1 |-> r.admin1, admin2 |-> r.admin2,
         country |-> r.country, nearest_city |-> r.nearest_city,
         location_text |-> r.location_text, offshore |-> r.offshore,
         eez_country |-> IF r.offshore /\ z # <<>> THEN z[1].country ELSE NA]

\* lines 412-418: merged[cols_keep]
OutRow(r) ==
    [epiid |-> r.epiid, pos |-> r.pos, admin1 |-> r.admin1, admin2 |-> r.admin2,
     country |-> r.country, nearest_city |-> r.nearest_city,
     location_text |-> r.location_text, offshore |-> r.offshore]

\* enrich_geocoding applied to a batch of one record, sjoin_nearest answering
enrich_geocoding_one(e) ==
    LET nc == << NearCityRow(e) >>
        j == SjoinMerge(<<e>>)
        a == Map(FillAdmin1Row, Map(FillCountryRow, j))
        b == Map(LAMBDA r : [r EXCEPT !.admin1 = normalize_admin1(r)], a)
        c == MergeCityRows(b, nc)
        d == Map(LAMBDA r : [r EXCEPT !.country = reconcile_country(r)], c)
        f == Map(RecomputeAdmin1Row, d)
        g == Map(LAMBDA r : r @@ [location_text |-> loc_text_in(r, nc)], f)
    IN  Map(OutRow, g)

\* the string a location text stands for
RECURSIVE Render(_)
Render(t) ==
    IF t = <<>> THEN ""
    ELSE IF Len(t) = 1 THEN t[1]
    ELSE t[1] \o ", " \o Render(Tail(t))

(* ----------------- enrich_and_format (pipeline_utils.py) -------------- *)
\* str(x).strip().lower() of the strings that occur as country names; a
\* string written in lower case without surrounding blanks is its own image
StripLower(x) ==
    CASE x = "Israel" -> "israel"
      [] x = "Cyprus" -> "cyprus"
      [] x = "N. Cyprus" -> "n. cyprus"
      [] x = "Akrotiri" -> "akrotiri"
      [] x = " TRNC" -> "trnc"
      [] x = "TRNC" -> "trnc"
      [] x = " Cyprus " -> "cyprus"
      [] x = "CYPRUS" -> "cyprus"
      [] x = "Dhekelia Cantonment" -> "dhekelia cantonment"
      [] x = "Northern Cyprus " -> "northern cyprus"
      [] x = "Turkish Republic of Northern Cyprus" -> "turkish republic of northern cyprus"
      [] x = "Cyprus U.N. Buffer Zone" -> "cyprus u.n. buffer zone"
      [] x = "UN Buffer Zone" -> "un buffer zone"
      [] x = "Greece" -> "greece"
      [] x = "Syria" -> "syria"
      [] x = "Turkey" -> "turkey"
      [] x = "Lebanon" -> "lebanon"
      [] x = "Jordan" -> "jordan"
      [] x = "Palestine" -> "palestine"
      [] x = "Egypt" -> "egypt"
      [] x = "Saudi Arabia" -> "saudi arabia"
      [] x = "Saudi" -> "saudi"
      [] x = "Kingdom of Saudi Arabia" -> "kingdom of saudi arabia"
      [] x = "  " -> ""
      [] OTHER -> x

CYPRUS_ALIASES ==
    { "akrotiri", "dhekelia", "akrotiri sovereign base area", "dhekelia cantonment",
      "n.cyprus", "n. cyprus", "n cyprus", "north cyprus", "northern cyprus", "trnc",
      "turkish republic of northern cyprus", "turkish republic of northen cyprus",
      "cyprus u.n. buffer", "cyprus un buffer", "cyprus u.n. buffer zone",
      "cyprus un buffer zone", "united nations buffer zone in cyprus",
      "united nations buffer zone", "u.n. buffer zone in cyprus", "u.n. buffer zone",
      "un buffer zone in cyprus", "un buffer zone" }

\* the country kept as it came
normalize_cyprus_off(country) == country

\* the alias looked up without strip() and lower()
normalize_cyprus_exact(country) ==
    IF country = NA THEN country
    ELSE IF country \in CYPRUS_ALIASES THEN "Cyprus"
    ELSE country

normalize_cyprus(country) ==
    IF country = NA THEN country
    ELSE IF StripLower(country) = "" THEN country
    ELSE IF StripLower(country) \in CYPRUS_ALIASES THEN "Cyprus"
    ELSE country

\* clean_eq_data.py, lines 206-223: _norm_country and its local alias set
CLEAN_ALIASES ==
    { "akrotiri", "dhekelia", "akrotiri sovereign base area", "dhekelia cantonment",
      "n.cyprus", "n. cyprus", "n cyprus", "north cyprus", "northern cyprus", "trnc",
      "turkish republic of northern cyprus", "turkish republic of northen cyprus",
      "cyprus u.n. buffer", "cyprus un buffer",
      "cyprus u.n. buffer zone", "cyprus un buffer zone",
      "united nations buffer zone in cyprus", "united nations buffer zone",
      "u.n. buffer zone in cyprus", "u.n. buffer zone", "un buffer zone in cyprus",
      "un buffer zone" }

clean_norm_country(val) ==
    IF val = NA THEN val
    ELSE IF StripLower(val) \in CLEAN_ALIASES THEN "Cyprus" ELSE val

\* src/update_earthquake_data.py, lines 107-118: _norm_country and its local
\* alias set
LEGACY_ALIASES ==
    { "akrotiri", "dhekelia", "akrotiri sovereign base area", "dhekelia cantonment",
      "n.cyprus", "n. cyprus", "n cyprus",
      "north cyprus", "northern cyprus",
      "cyprus u.n. buffer", "cyprus un buffer",
      "cyprus u.n. buffer zone", "cyprus un buffer zone" }

legacy_norm_country(val) ==
    IF val = NA THEN val
    ELSE IF StripLower(val) \in LEGACY_ALIASES THEN "Cyprus" ELSE val

\* src/update_earthquake_data.py, lines 253-264: _norm_country_write and its
\* local alias set
LEGACY_WRITE_ALIASES ==
    { "akrotiri", "dhekelia", "akrotiri sovereign base area", "dhekelia cantonment",
      "n.cyprus", "n. cyprus", "n cyprus",
      "north cyprus", "northern cyprus",
      "cyprus u.n. buffer", "cyprus un buffer",
      "cyprus u.n. buffer zone", "cyprus un buffer zone" }

legacy_norm_country_write(val) ==
    IF val = NA THEN val
    ELSE IF StripLower(val) \in LEGACY_WRITE_ALIASES THEN "Cyprus" ELSE val

\* _norm (strip, remove diacritics, lower) of the strings that occur as
\* admin-region names; no string used here carries a diacritic
NormArea(x) ==
    CASE x = "Northern" -> "northern"
      [] x = "HaZafon" -> "hazafon"
      [] x = "Paphos" -> "paphos"
      [] x = "HaMerkaz" -> "hamerkaz"
      [] x = "HaDarom" -> "hadarom"
      [] x = "Yerushalayim" -> "yerushalayim"
      [] x = "Tel Aviv" -> "tel aviv"
      [] x = "Haifa" -> "haifa"
      [] x = " Haifa " -> "haifa"
      [] x = "North" -> "north"
      [] x = "South" -> "south"
      [] x = "Central" -> "central"
      [] x = "Sinai" -> "sinai"
      [] x = "Northwest" -> "northwest"
      [] x = "West Bank" -> "west bank"
      [] x = "Beqaa Valley" -> "beqaa valley"
      [] x = "Bekaa" -> "bekaa"
      [] x = "Ma'an" -> "ma'an"
      [] x = "Maan" -> "maan"
      [] x = "As Suwayda" -> "as suwayda"
      [] x = "Eastern Province" -> "eastern province"
      [] x = "Akrotiri Sovereign Base Area" -> "akrotiri sovereign base area"
      [] x = "Attica" -> "attica"
      [] OTHER -> StripLower(x)

\* area_aggregation.py, lines 12-18
AREA_CYPRUS_ALIASES ==
    { "akrotiri", "dhekelia", "n.cyprus", "n. cyprus", "n cyprus",
      "north cyprus", "northern cyprus",
      "cyprus u.n. buffer", "cyprus un buffer",
      "cyprus u.n. buffer zone", "cyprus un buffer zone",
      "akrotiri sovereign base area", "dhekelia cantonment" }

\* lines 66-106: the mapping table
AreaMapping ==
    ("syria" :>
        (("aleppo" :> "North") @@ ("idlib" :> "North") @@ ("latakia" :> "North") @@
         ("tartus" :> "North") @@ ("hama" :> "North") @@
         ("rif dimashq" :> "South") @@ ("quneitra" :> "South") @@ ("homs" :> "South") @@
         ("daraa" :> "South") @@ ("as-suwayda" :> "South") @@
         ("western al-samadania" :> "South"))) @@
    ("turkey" :>
        (("hatay" :> "South") @@ ("antalya" :> "South") @@ ("mersin" :> "South"))) @@
    ("lebanon" :>
        (("north" :> "North") @@ ("beirut" :> "North") @@ ("mount lebanon" :> "North") @@
         ("beqaa" :> "South") @@ ("nabatieh" :> "South") @@ ("south" :> "South"))) @@
    ("jordan" :>
        (("irbid" :> "North") @@ ("ajloun" :> "North") @@ ("mafraq" :> "North") @@
         ("amman" :> "Central") @@ ("zarqa" :> "Central") @@ ("balqa" :> "Central") @@
         ("madaba" :> "Central") @@
         ("ma'an" :> "South") @@ ("karak" :> "South") @@ ("tafilah" :> "South") @@
         ("aqaba" :> "South"))) @@
    ("israel" :>
        (("tel aviv" :> "HaMerkaz") @@ ("hamerkaz" :> "HaMerkaz") @@
         ("yerushalayim" :> "HaMerkaz") @@ ("haifa" :> "HaZafon") @@
         ("hazafon" :> "HaZafon") @@ ("hadarom" :> "HaDarom"))) @@
    ("palestine" :>
        (("gaza" :> "Palestine") @@ ("west bank" :> "West Bank"))) @@
    ("cyprus" :>
        (("nicosia" :> "Cyprus") @@ ("limassol" :> "Cyprus") @@ ("larnaca" :> "Cyprus") @@
         ("paphos" :> "Cyprus") @@ ("famagusta" :> "Cyprus") @@
         ("northern cyprus" :> "Cyprus") @@ ("akrotiri" :> "Cyprus") @@
         ("dhekelia" :> "Cyprus"))) @@
    ("egypt" :>
        (("damietta" :> "North") @@ ("port said" :> "North") @@ ("ismailia" :> "North") @@
         ("suez" :> "South") @@ ("red sea" :> "South") @@
         ("north sinai" :> "Sinai") @@ ("south sinai" :> "Sinai"))) @@
    ("saudi arabia" :>
        (("tabuk" :> "Northwest") @@ ("al-jowf" :> "Northwest") @@
         ("al jowf" :> "Northwest") @@ ("al madinah" :> "Northwest") @@
         ("al sharqia" :> "Northwest") @@ ("ash sharqiyah" :> "Northwest") @@
         ("eastern province" :> "Northwest")))

\* lines 39-64: the normalised country and area the table is looked up with
\* (the Ma'an spellings with typographic apostrophes are not among the strings
\* used here)
AreaKeyCountry(country) ==
    LET c == IF country = NA THEN "" ELSE NormArea(country)
    IN  IF c \in AREA_CYPRUS_ALIASES THEN "cyprus"
        ELSE IF c \in {"saudi", "saudi arabia", "kingdom of saudi arabia"} THEN "saudi arabia"
        ELSE c

AreaKeyArea(area) ==
    LET a == NormArea(area)
    IN  IF a \in {"ma'an", "maan"} THEN "ma'an"
        ELSE IF a \in {"beqaa", "bekaa", "beqa", "beqaa valley"} THEN "beqaa"
        ELSE IF a \in {"as suwayda", "suwayda", "as-suwayda"} THEN "as-suwayda"
        ELSE IF a \in {"ash sharqiyah", "ash sharqiyah province", "eastern province"}
             THEN "al sharqia"
        ELSE a

\* the table alone: the rule of lines 112-114 left out
aggregate_area_table_only(country, area) ==
    IF area = NA \/ StripLower(area) = "" THEN area
    ELSE LET c == AreaKeyCountry(country)
             a == AreaKeyArea(area)
         IN  IF c \in DOMAIN AreaMapping /\ a \in DOMAIN AreaMapping[c]
             THEN AreaMapping[c][a]
             ELSE area

aggregate_area(country, area) ==
    IF area = NA \/ StripLower(area) = "" THEN area
    ELSE LET c == AreaKeyCountry(country)
             a == AreaKeyArea(area)
         IN  IF c \in DOMAIN AreaMapping /\ a \in DOMAIN AreaMapping[c]
             THEN AreaMapping[c][a]
             ELSE IF c = "cyprus"
                     /\ a \in {"akrotiri sovereign base area", "dhekelia cantonment"}
             THEN "Cyprus"
             ELSE area

\* re.sub(r",\s*T\s*,\s*", ", ", s): matches do not overlap, so the segment
\* after a removed one has lost its leading comma and is kept
RECURSIVE StripMiddle(_, _, _)
StripMiddle(segs, t, i) ==
    IF i > Len(segs) THEN <<>>
    ELSE IF i >= 2 /\ i < Len(segs) /\ segs[i] = t
         THEN <<segs[i + 1]>> \o StripMiddle(segs, t, i + 2)
         ELSE <<segs[i]>> \o StripMiddle(segs, t, i + 1)

\* re.sub(r",\s*T\s*$", "", s)
StripLast(segs, t) ==
    IF Len(segs) >= 2 /\ segs[Len(segs)] = t THEN SubSeq(segs, 1, Len(segs) - 1)
    ELSE segs

StripToken(segs, t) ==
    IF t = NA \/ t = "" THEN segs ELSE StripLast(StripMiddle(segs, t, 1), t)

\* the text left as composed
strip_area_tokens_off(text, tokens) == text

strip_area_tokens_in_text(text, tokens) ==
    IF text = NoText THEN text
    ELSE LET RECURSIVE Go(_, _)
             Go(s, i) == IF i > Len(tokens) THEN s ELSE Go(StripToken(s, tokens[i]), i + 1)
         IN  Go(text, 1)

\* no fallback text
simple_loc_off(row) == NoText

simple_loc(row) ==
    IF row.city = NA /\ row.country = NA THEN NoText
    ELSE IF row.city = NA THEN <<row.country>>
    ELSE IF row.country = NA THEN <<row.city>>
    ELSE <<row.city, row.country>>

\* lines 185-251 for one row of the frame enrich_geocoding returned
FormatRow(r) ==
    LET country == normalize_cyprus(r.country)
        area == aggregate_area(country, r.admin1)
        on_land == ~r.offshore
        base == [city |-> r.nearest_city, country |-> country]
        text == IF r.location_text = NoText THEN simple_loc(base) ELSE r.location_text
    IN  [epiid |-> r.epiid, pos |-> r.pos, city |-> r.nearest_city, area |-> area,
         country |-> country, on_land |-> on_land,
         location_text |-> strip_area_tokens_in_text(text, <<r.admin1, area>>)]

(* ---------------- append_to_geojson (pipeline_utils.py) --------------- *)
\* a frame is [cols, rows]: its property columns (geometry apart) and its
\* rows, each a record over cols; a GeoJSON file is the sequence of the
\* property records of its features
TARGET_COLS_MINIMAL ==
    { "epiid", "latitude", "longitude", "date", "date-time", "magnitude", "depth",
      "felt?", "city", "area", "country", "on_land", "location_text" }

\* pd.NA in a column
Null(col) ==
    IF col = "location_text" THEN NoText
    ELSE IF col \in {"epiid", "latitude"} THEN NoPos
    ELSE NA

Pad(row, cols) == [c \in cols |-> IF c \in DOMAIN row THEN row[c] ELSE Null(c)]

\* lines 243-251: the frame enrich_and_format returns has the minimal columns;
\* pos stands for latitude, longitude and geometry, the other measured values
\* are not followed
MinimalFrame(rows) ==
    [cols |-> TARGET_COLS_MINIMAL,
     rows |-> [i \in DOMAIN rows |->
                 Pad([epiid |-> rows[i].epiid, latitude |-> rows[i].pos,
                      city |-> rows[i].city, area |-> rows[i].area,
                      country |-> rows[i].country, on_land |-> rows[i].on_land,
                      location_text |-> rows[i].location_text], TARGET_COLS_MINIMAL)]]

\* gpd.read_file of a GeoJSON: one column per property key that occurs, a
\* feature without the key holding null
read_file(feats) ==
    LET cols == UNION {DOMAIN feats[i] : i \in DOMAIN feats}
    IN  [cols |-> cols, rows |-> [i \in DOMAIN feats |-> Pad(feats[i], cols)]]

\* GeoDataFrame.to_json: every column is a property of every feature
to_json(frame) == frame.rows

\* every row kept
drop_duplicates_off(rows) == rows

\* drop_duplicates(subset=["epiid"], keep="first")
drop_duplicates(rows) ==
    LET RECURSIVE Go(_)
        Go(i) == IF i > Len(rows) THEN <<>>
                 ELSE IF \E j \in 1 .. (i - 1) : rows[j].epiid = rows[i].epiid
                      THEN Go(i + 1)
                      ELSE <<rows[i]>> \o Go(i + 1)
    IN  Go(1)

\* the existing rows put first
concat_existing_first(new_rows, old_rows) == old_rows \o new_rows

\* pd.concat([new_gdf, existing], ignore_index=True)
concat(new_rows, old_rows) == new_rows \o old_rows

\* lines 288-300: country normalized, area token stripped from the text,
\* minimal columns ensured, every other column dropped
trim_new(frame) ==
    LET fix(r) ==
            LET r1 == IF "country" \in frame.cols
                      THEN [r EXCEPT !["country"] = normalize_cyprus(@)] ELSE r
                r2 == IF "location_text" \in frame.cols
                      THEN [r1 EXCEPT !["location_text"] =
                                strip_area_tokens_in_text(@, <<r1["area"]>>)]
                      ELSE r1
            IN  [c \in TARGET_COLS_MINIMAL |-> IF c \in DOMAIN r2 THEN r2[c] ELSE Null(c)]
    IN  [cols |-> TARGET_COLS_MINIMAL, rows |-> [i \in DOMAIN frame.rows |-> fix(frame.rows[i])]]

\* lines 302-336: the features written, given the frame handed in, the
\* features on disk and whether gpd.read_file could read them
append_to_geojson(frame, feats, readable) ==
    LET new_gdf == trim_new(frame)
        old == IF feats # <<>> /\ readable THEN read_file(feats)
               ELSE [cols |-> new_gdf.cols, rows |-> <<>>]
        cols_union == old.cols \cup new_gdf.cols
        combined == concat([i \in DOMAIN new_gdf.rows |-> Pad(new_gdf.rows[i], cols_union)],
                           [i \in DOMAIN old.rows |-> Pad(old.rows[i], cols_union)])
    IN  to_json([cols |-> cols_union, rows |-> drop_duplicates(combined)])

(* ------------------------------ actions ------------------------------- *)
\* the variables of the other specifications, at rest
OutsideIdle ==
    /\ theta = 0
    /\ resolution = 16
    /\ label = ""
    /\ file = <<>>
    /\ existing = <<>>
    /\ new_df = <<>>
    /\ places = <<>>
    /\ call = <<>>
    /\ ret = <<>>

\* a layer whose file is missing is never loaded
Init ==
    /\ eq \in Batches
    /\ missing \in SUBSET {"admin0", "admin1", "cities"}
    /\ admin0 \in IF "admin0" \in missing THEN {<<>>} ELSE Layers(CountryPool)
    /\ admin1 \in IF "admin1" \in missing THEN {<<>>} ELSE Layers(Admin1Pool)
    /\ cities \in IF "cities" \in missing THEN {<<>>}
                  ELSE {load_cities(raw, MinPopulation) : raw \in Layers(PlacesPool)}
    /\ hasIso0 \in IF "admin0" \in missing THEN {FALSE} ELSE BOOLEAN
    /\ hasIso1 \in IF "admin1" \in missing THEN {FALSE} ELSE BOOLEAN
    /\ merged = <<>>
    /\ near_city = <<>>
    /\ pc = "start"
    /\ hist = <<>>
    /\ out = <<>>
    /\ enriched = <<>>
    /\ err = ""
    /\ fellback = FALSE
    /\ OutsideIdle

Layer == <<eq, admin0, admin1, cities, hasIso0, hasIso1, missing>>

\* what enrich_geocoding and enrich_and_format do not touch
Outside == <<theta, resolution, label, file, existing, new_df, places, call, ret>>

Step(from, to, frame) ==
    /\ pc = from
    /\ pc' = to
    /\ merged' = frame
    /\ hist' = (to :> frame) @@ hist
    /\ UNCHANGED <<Layer, err, fellback, Outside>>

\* lines 47-51, 108-110: _safe_read_shp and _load_cities raise
\* FileNotFoundError for a file that does not exist; nothing catches it
LoadNeverRaises == FALSE

LoadRaises == missing # {}

\* lines 179-205: empty input is returned as is; the merge raises when both
\* frames carry an iso_a2 column (suffixes=("", "") on overlapping columns)
Join ==
    /\ pc = "start"
    /\ UNCHANGED <<Layer, near_city, enriched, fellback, Outside>>
    /\ IF eq = <<>>
       THEN pc' = "returned" /\ out' = eq /\ UNCHANGED <<merged, hist, err>>
       ELSE IF LoadRaises
       THEN pc' = "raised" /\ err' = "FileNotFoundError" /\ UNCHANGED <<merged, hist, out>>
       ELSE IF hasIso0 /\ hasIso1
       THEN pc' = "raised" /\ err' = "ValueError" /\ UNCHANGED <<merged, hist, out>>
       ELSE /\ pc' = "joined"
            /\ merged' = SjoinMerge(eq)
            /\ hist' = ("joined" :> merged') @@ hist
            /\ UNCHANGED <<out, err>>

FillCountry ==
    /\ Step("joined", "country", Map(FillCountryRow, merged))
    /\ UNCHANGED <<near_city, out, enriched>>

FillAdmin1 ==
    /\ Step("country", "admin1", Map(FillAdmin1Row, merged))
    /\ UNCHANGED <<near_city, out, enriched>>

NormalizeAdmin1 ==
    /\ Step("admin1", "normalized",
            Map(LAMBDA r : [r EXCEPT !.admin1 = normalize_admin1(r)], merged))
    /\ UNCHANGED <<near_city, out, enriched>>

\* lines 290-298, 320-325: sjoin_nearest answered
NearestCity ==
    /\ near_city' = Map(NearCityRow, eq)
    /\ Step("normalized", "city", MergeCityRows(merged, near_city'))
    /\ UNCHANGED <<out, enriched>>

\* lines 299-325: sjoin_nearest raised; the fallback frame is built and the
\* column selection of line 322 is applied to it
NearestCityFallback ==
    /\ pc = "normalized"
    /\ fellback' = TRUE
    /\ near_city' = FlatMap(FallbackCityRows, eq)
    /\ IF SelectCityColumnsRaises(near_city')
       THEN pc' = "raised" /\ err' = "KeyError" /\ UNCHANGED <<merged, hist>>
       ELSE /\ pc' = "city"
            /\ merged' = MergeCityRows(merged, near_city')
            /\ hist' = ("city" :> merged') @@ hist
            /\ UNCHANGED err
    /\ UNCHANGED <<Layer, out, enriched, Outside>>

ReconcileCountry ==
    /\ Step("city", "reconciled",
            Map(LAMBDA r : [r EXCEPT !.country = reconcile_country(r)], merged))
    /\ UNCHANGED <<near_city, out, enriched>>

RecomputeAdmin1 ==
    /\ Step("reconciled", "refixed", Map(RecomputeAdmin1Row, merged))
    /\ UNCHANGED <<near_city, out, enriched>>

ComposeLocationText ==
    /\ Step("refixed", "composed",
            Map(LAMBDA r : r @@ [location_text |-> loc_text(r)], merged))
    /\ UNCHANGED <<near_city, out, enriched>>

Return ==
    /\ pc = "composed"
    /\ pc' = "returned"
    /\ out' = Map(OutRow, merged)
    /\ UNCHANGED <<Layer, merged, near_city, hist, enriched, err, fellback, Outside>>

EnrichAndFormat ==
    /\ pc = "returned"
    /\ pc' = "formatted"
    /\ enriched' = Map(FormatRow, out)
    /\ UNCHANGED <<Layer, merged, near_city, hist, out, err, fellback, Outside>>

Next ==
    \/ Join
    \/ FillCountry
    \/ FillAdmin1
    \/ NormalizeAdmin1
    \/ NearestCity
    \/ NearestCityFallback
    \/ ReconcileCountry
    \/ RecomputeAdmin1
    \/ ComposeLocationText
    \/ Return
    \/ EnrichAndFormat

Spec == Init /\ [][Next]_vars

(* --------------------- validate_dataset.py, lines 9-47 ---------------- *)
ALIASES ==
    { "akrotiri", "dhekelia", "akrotiri sovereign base area", "dhekelia cantonment",
      "n.cyprus", "n. cyprus", "n cyprus", "north cyprus", "northern cyprus", "trnc",
      "turkish republic of northern cyprus", "turkish republic of northen cyprus",
      "cyprus u.n. buffer", "cyprus un buffer",
      "cyprus u.n. buffer zone", "cyprus un buffer zone",
      "united nations buffer zone in cyprus", "united nations buffer zone",
      "u.n. buffer zone in cyprus", "u.n. buffer zone", "un buffer zone in cyprus",
      "un buffer zone" }

ALLOWED_KEYS ==
    { "epiid", "latitude", "longitude", "date", "date-time", "magnitude", "depth", "felt?",
      "city", "area", "country", "on_land", "location_text" }

\* line 40: v and str(v).strip().lower() in ALIASES and str(v) != 'Cyprus'
offender(v) == v # NA /\ v # "" /\ StripLower(v) \in ALIASES /\ v # "Cyprus"

(* ----------------- the update run: format, then append ---------------- *)
\* rows as enrich_geocoding returns them, some with a Cyprus alias as country
RawRows ==
    { [epiid |-> e, pos |-> r.pos, admin1 |-> r.admin1, admin2 |-> NA,
       country |-> r.country, nearest_city |-> r.nearest_city,
       location_text |-> r.location_text, offshore |-> r.offshore] :
      e \in Epiids,
      r \in { [pos |-> 0, admin1 |-> "HaZafon", country |-> "Israel",
               nearest_city |-> "Haifa", offshore |-> FALSE,
               location_text |-> <<"0km N of Haifa", "HaZafon", "Israel">>],
              [pos |-> 2, admin1 |-> "Paphos", country |-> "N. Cyprus",
               nearest_city |-> "Paphos", offshore |-> FALSE,
               location_text |-> <<"0km N of Paphos", "Paphos", "N. Cyprus">>],
              [pos |-> 3, admin1 |-> NA, country |-> "Akrotiri",
               nearest_city |-> NA, offshore |-> TRUE, location_text |-> NoText] } }

RawBatches == InjSeqs(RawRows, MaxBatch)

\* frames handed to append_to_geojson by another caller: a helper column
\* still present, the country not normalized
DirectFrames ==
    { [cols |-> TARGET_COLS_MINIMAL \cup {"admin1"},
       rows |-> << Pad([epiid |-> e, latitude |-> 2, city |-> "Paphos", area |-> "Paphos",
                        country |-> " TRNC", on_land |-> TRUE, admin1 |-> "Paphos",
                        location_text |-> <<"0km N of Paphos", "Paphos", " TRNC">>],
                       TARGET_COLS_MINIMAL \cup {"admin1"}) >>] : e \in Epiids }

\* GeoJSON files found on disk before the first run: none, one written with
\* the minimal schema, one whose features carry a helper property, one
\* holding an epiid twice; no country is a Cyprus alias
OldFeature(e, lat, ctry) ==
    Pad([epiid |-> e, latitude |-> lat, city |-> "Haifa", area |-> "HaZafon",
         country |-> ctry, on_land |-> TRUE,
         location_text |-> <<"0km N of Haifa", ctry>>], TARGET_COLS_MINIMAL)

InitFiles ==
    { <<>>,
      << OldFeature(1, 1, "Israel") >>,
      << OldFeature(2, 1, "Cyprus") @@ [admin1 |-> "Paphos"] >>,
      << OldFeature(1, 1, "Israel"), OldFeature(1, 3, "Israel") >>,
      << OldFeature(2, 3, "Israel"), OldFeature(1, 1, "Cyprus") >> }

AppendInit ==
    /\ file \in InitFiles
    /\ existing = <<>>
    /\ new_df = [cols |-> {}, rows |-> <<>>]
    /\ out = <<>>
    /\ enriched = <<>>
    /\ pc = "init"
    /\ eq = <<>> /\ cities = <<>> /\ near_city = <<>> /\ places = <<>>
    /\ admin0 = <<>> /\ admin1 = <<>> /\ hasIso0 = FALSE /\ hasIso1 = FALSE
    /\ missing = {} /\ merged = <<>> /\ hist = <<>>
    /\ err = "" /\ fellback = FALSE
    /\ theta = 0 /\ resolution = 16 /\ label = ""
    /\ call = <<>> /\ ret = <<>>

AppendFrame ==
    <<eq, cities, near_city, places, admin0, admin1, hasIso0, hasIso1, missing, merged,
      hist, err, fellback, theta, resolution, label, call, ret>>

\* update_earthquake_data.main, lines 134-136: the batch enrich_geocoding
\* returned is formatted and turned into the frame to append
EnrichAndFormatBatch ==
    /\ pc \in {"init", "written"}
    /\ \E raw \in RawBatches :
          /\ out' = raw
          /\ enriched' = Map(FormatRow, raw)
          /\ new_df' = MinimalFrame(enriched')
    /\ pc' = "batch"
    /\ UNCHANGED <<file, existing, AppendFrame>>

OtherBatch ==
    /\ pc \in {"init", "written"}
    /\ new_df' \in DirectFrames
    /\ out' = <<>>
    /\ enriched' = <<>>
    /\ pc' = "batch"
    /\ UNCHANGED <<file, existing, AppendFrame>>

\* append_to_geojson, the file absent or read
AppendToGeojson ==
    /\ pc = "batch"
    /\ existing' = file
    /\ file' = append_to_geojson(new_df, file, TRUE)
    /\ pc' = "written"
    /\ UNCHANGED <<new_df, out, enriched, AppendFrame>>

\* append_to_geojson, gpd.read_file raising on the file (lines 306-309)
AppendUnreadable ==
    /\ pc = "batch"
    /\ file # <<>>
    /\ existing' = file
    /\ file' = append_to_geojson(new_df, file, FALSE)
    /\ pc' = "written"
    /\ UNCHANGED <<new_df, out, enriched, AppendFrame>>

AppendNext == EnrichAndFormatBatch \/ OtherBatch \/ AppendToGeojson \/ AppendUnreadable

SpecAppend == AppendInit /\ [][AppendNext]_vars

(* -------------------------- the compass labels ------------------------ *)
\* every bearing of [0, 360) in steps of 1/100 degree
Bearings == 0 .. (360 * 100 - 1)

CompassInit ==
    /\ theta \in Bearings
    /\ resolution \in {8, 16}
    /\ label = ""
    /\ pc = "compass"
    /\ eq = <<>> /\ cities = <<>> /\ near_city = <<>> /\ places = <<>>
    /\ admin0 = <<>> /\ admin1 = <<>> /\ hasIso0 = FALSE /\ hasIso1 = FALSE
    /\ missing = {} /\ merged = <<>> /\ hist = <<>> /\ out = <<>> /\ enriched = <<>>
    /\ err = "" /\ fellback = FALSE
    /\ file = <<>> /\ existing = <<>> /\ new_df = <<>>
    /\ call = <<>> /\ ret = <<>>

CompassFrame ==
    <<theta, eq, cities, near_city, places, admin0, admin1, hasIso0, hasIso1, missing,
      merged, hist, out, enriched, err, fellback, file, existing, new_df, call, ret>>

Cardinal8 ==
    /\ pc = "compass" /\ resolution = 8
    /\ label' = bearing_to_cardinal_8(theta)
    /\ pc' = "labelled"
    /\ UNCHANGED <<resolution, CompassFrame>>

Cardinal16 ==
    /\ pc = "compass" /\ resolution = 16
    /\ label' = bearing_to_cardinal_16(theta)
    /\ pc' = "labelled"
    /\ UNCHANGED <<resolution, CompassFrame>>

\* line 393 of _loc_text: card = _bearing_to_cardinal_16(bearing)
LocTextCardinal ==
    /\ pc = "compass"
    /\ label' = bearing_to_cardinal_16(theta)
    /\ resolution' = 16
    /\ pc' = "text"
    /\ UNCHANGED CompassFrame

CompassNext == Cardinal8 \/ Cardinal16 \/ LocTextCardinal

SpecCompass == CompassInit /\ [][CompassNext]_vars

(* --------------- _load_cities and the nearest-place lookup ------------- *)
CitiesInit ==
    /\ places \in Layers(PlacesPool)
    /\ eq \in {b \in Batches : Len(b) = 1}
    /\ pc = "load"
    /\ cities = <<>>
    /\ near_city = <<>>
    /\ admin0 = <<>> /\ admin1 = <<>> /\ hasIso0 = FALSE /\ hasIso1 = FALSE
    /\ missing = {} /\ merged = <<>> /\ hist = <<>> /\ out = <<>> /\ enriched = <<>>
    /\ err = "" /\ fellback = FALSE
    /\ theta = 0 /\ resolution = 16 /\ label = ""
    /\ call = <<>> /\ ret = <<>>
    /\ file = <<>> /\ existing = <<>> /\ new_df = <<>>

\* line 189: cities = _load_cities(min_population=500)
LoadCities ==
    /\ pc = "load"
    /\ pc' = "loaded"
    /\ cities' = load_cities(places, MinPopulation)
    /\ UNCHANGED <<eq, admin0, admin1, hasIso0, hasIso1, missing, merged, near_city, hist,
                   out, enriched, err, fellback, Outside>>

\* lines 290-298
LookupNearest ==
    /\ pc = "loaded"
    /\ pc' = "looked"
    /\ near_city' = Map(NearCityRow, eq)
    /\ UNCHANGED <<Layer, merged, hist, out, enriched, err, fellback, Outside>>

CitiesNext == LoadCities \/ LookupNearest

SpecCities == CitiesInit /\ [][CitiesNext]_vars

(* ------------- compute_change_stats (update_earthquake_data.py) -------- *)
\* a missing number (None / NaN) in a compared field
NoVal == -1

\* line 73
fields == << "latitude", "longitude", "magnitude", "depth", "felt?" >>

\* lines 90: latest.merge(existing_df, on="epiid", how="left"): every latest
\* row paired with the stored rows of its epiid, or with nulls
StatsMerge(latest, feats) ==
    LET Pair(l) ==
            LET rs == SelectSeq(feats, LAMBDA o : o["epiid"] = l["epiid"])
            IN  IF rs = <<>>
                THEN << [new |-> l, old |-> [f \in DOMAIN l |-> NoVal]] >>
                ELSE [i \in DOMAIN rs |-> [new |-> l, old |-> rs[i]]]
    IN  FlatMap(Pair, latest)

\* lines 96-101: changed_any | (b.notna() & (a != b) & ~(a.isna() & b.isna()))
changed_any(m) ==
    \E i \in DOMAIN fields :
        LET a == m.new[fields[i]]
            b == m.old[fields[i]]
        IN  b # NoVal /\ a # b /\ ~(a = NoVal /\ b = NoVal)

\* lines 68-114; with no stored feature existing_df has no epiid column, the
\* merge raises and the except branch counts the distinct new epiids
compute_change_stats(latest, feats) ==
    IF feats = <<>>
    THEN << Cardinality({latest[i]["epiid"] : i \in DOMAIN latest}), 0 >>
    ELSE LET merged_stats == StatsMerge(latest, feats)
             new_count == Cardinality({i \in DOMAIN merged_stats :
                                          merged_stats[i].old["latitude"] = NoVal})
             updated_count == Cardinality({i \in DOMAIN merged_stats :
                                              changed_any(merged_stats[i])})
         IN  << new_count, updated_count >>

(* ------------------ the helper functions, called alone ---------------- *)
\* country values: every alias, spellings of some of them with capitals and
\* surrounding blanks, other countries, blank and missing values
CountryStrings ==
    CYPRUS_ALIASES \cup
    { "Israel", "Cyprus", " Cyprus ", "CYPRUS", "cyprus", "Greece",
      "N. Cyprus", "Akrotiri", " TRNC", "TRNC", "Dhekelia Cantonment", "Northern Cyprus ",
      "Turkish Republic of Northern Cyprus", "Cyprus U.N. Buffer Zone", "UN Buffer Zone",
      "", "  ", NA }

\* countries and areas handed to aggregate_area: every key and every bucket of
\* the table, the variant spellings, names the table does not hold, blank and
\* missing values
AreaCountries ==
    { "Israel", "Cyprus", "Syria", "Turkey", "Lebanon", "Jordan", "Palestine", "Egypt",
      "Saudi Arabia", "Saudi", "Kingdom of Saudi Arabia", "N. Cyprus", "Akrotiri",
      "Greece", "", NA }

AreaStrings ==
    UNION {DOMAIN AreaMapping[c] : c \in DOMAIN AreaMapping} \cup
    UNION {{AreaMapping[c][a] : a \in DOMAIN AreaMapping[c]} : c \in DOMAIN AreaMapping} \cup
    { "Tel Aviv", "Haifa", " Haifa ", "Yerushalayim", "Northern", "Paphos",
      "Beqaa Valley", "Bekaa", "Ma'an", "Maan", "As Suwayda", "Eastern Province",
      "Akrotiri Sovereign Base Area", "Dhekelia Cantonment", "dhekelia cantonment",
      "Attica", "", "  ", NA }

\* rows of the latest window and stored features, the five compared fields
StatsRow(e, lat, felt) ==
    [f \in {"epiid"} \cup {fields[i] : i \in DOMAIN fields} |->
        CASE f = "epiid" -> e
          [] f = "latitude" -> lat
          [] f = "longitude" -> 35
          [] f = "magnitude" -> 3
          [] f = "depth" -> 10
          [] f = "felt?" -> felt]

UniqueEpiid(rows) == \A i, j \in DOMAIN rows : i # j => rows[i]["epiid"] # rows[j]["epiid"]

LatestWindows ==
    {w \in InjSeqs({StatsRow(e, lat, felt) : e \in Epiids, lat \in {1, 2}, felt \in {NoVal, 1}},
                   MaxBatch) : UniqueEpiid(w)}

StoredFeatures ==
    {w \in InjSeqs({StatsRow(e, lat, felt) : e \in Epiids, lat \in {1, 2},
                                             felt \in {NoVal, 0, 1}},
                   MaxBatch) : UniqueEpiid(w)}

CallsInit ==
    /\ \/ \E c \in CountryStrings, f \in {"normalize_cyprus", "_norm_country",
                                          "legacy._norm_country",
                                          "legacy._norm_country_write"} :
             call = [fn |-> f, args |-> <<c>>]
       \/ \E c \in AreaCountries, a \in AreaStrings :
             call = [fn |-> "aggregate_area", args |-> <<c, a>>]
       \/ \E l \in LatestWindows, o \in StoredFeatures :
             call = [fn |-> "compute_change_stats", args |-> <<l, o>>]
    /\ ret = <<>>
    /\ pc = "call"
    /\ eq = <<>> /\ cities = <<>> /\ near_city = <<>> /\ places = <<>>
    /\ admin0 = <<>> /\ admin1 = <<>> /\ hasIso0 = FALSE /\ hasIso1 = FALSE
    /\ missing = {} /\ merged = <<>> /\ hist = <<>> /\ out = <<>> /\ enriched = <<>>
    /\ err = "" /\ fellback = FALSE
    /\ theta = 0 /\ resolution = 16 /\ label = ""
    /\ file = <<>> /\ existing = <<>> /\ new_df = <<>>

CallsFrame ==
    <<call, eq, cities, near_city, places, admin0, admin1, hasIso0, hasIso1, missing,
      merged, hist, out, enriched, err, fellback, theta, resolution, label, file,
      existing, new_df>>

\* a call returns; ret holds the values returned so far
Returns(value) ==
    /\ pc = "call"
    /\ ret' = << value >>
    /\ pc' = "done"
    /\ UNCHANGED CallsFrame

NormalizeCyprus ==
    /\ call.fn = "normalize_cyprus"
    /\ Returns(normalize_cyprus(call.args[1]))

CleanNormCountry ==
    /\ call.fn = "_norm_country"
    /\ Returns(clean_norm_country(call.args[1]))

LegacyNormCountry ==
    /\ call.fn = "legacy._norm_country"
    /\ Returns(legacy_norm_country(call.args[1]))

LegacyNormCountryWrite ==
    /\ call.fn = "legacy._norm_country_write"
    /\ Returns(legacy_norm_country_write(call.args[1]))

AggregateArea ==
    /\ call.fn = "aggregate_area"
    /\ Returns(aggregate_area(call.args[1], call.args[2]))

ComputeChangeStats ==
    /\ call.fn = "compute_change_stats"
    /\ Returns(compute_change_stats(call.args[1], call.args[2]))

\* the function applied to its own result
NormalizeCyprusAgain ==
    /\ pc = "done"
    /\ call.fn = "normalize_cyprus"
    /\ ret' = Append(ret, normalize_cyprus(ret[1]))
    /\ pc' = "again"
    /\ UNCHANGED CallsFrame

\* the function applied to its own result, with the same country
AggregateAreaAgain ==
    /\ pc = "done"
    /\ call.fn = "aggregate_area"
    /\ ret' = Append(ret, aggregate_area(call.args[1], ret[1]))
    /\ pc' = "again"
    /\ UNCHANGED CallsFrame

CallsNext ==
    \/ NormalizeCyprus
    \/ CleanNormCountry
    \/ LegacyNormCountry
    \/ LegacyNormCountryWrite
    \/ AggregateArea
    \/ ComputeChangeStats
    \/ NormalizeCyprusAgain
    \/ AggregateAreaAgain

SpecCalls == CallsInit /\ [][CallsNext]_vars

(* ====================== properties of the pipeline ==================== *)
Reached(stage) == stage \in DOMAIN hist

Contained(p) == \E i \in DOMAIN admin0 : p \in admin0[i].cells

\* the country a place's ISO code stands for, and the code of a country
CountryOfCode(code) == (CHOOSE f \in CountryPool : f.iso_a2 = code).country

IsoOfCountry(name) == (CHOOSE f \in CountryPool : f.country = name).iso_a2

\* the displayed distance and the compass label of a row with a nearest place
ShownKm(row) == RoundKm(haversine_km(row.pos, row.city_pos))

ShownCompass(row) == bearing_to_cardinal_16(bearing_deg(row.pos, row.city_pos))

(* C1: for a batch with unique epiids enrich_geocoding returns exactly one
   row per input record, in input order, also when a point lies within more
   than one polygon of the country layer or of the admin-region layer. *)
C1_OneRowPerRecord ==
    (pc = "returned" /\ eq # <<>>) =>
        /\ Len(out) = Len(eq)
        /\ \A i \in DOMAIN out : out[i].epiid = eq[i].epiid

(* C2: on_land is true exactly when some country polygon contains the
   point, and it is the negation of the offshore flag recorded before the
   nearest-country fill. *)
C2_OnLandIffContained ==
    pc = "formatted" =>
        \A i \in DOMAIN enriched :
            /\ enriched[i].on_land <=> Contained(enriched[i].pos)
            /\ enriched[i].on_land <=> ~hist["country"][i].offshore
            /\ hist["country"][i].offshore <=> (hist["joined"][i].country = NA)

C2_Witness ==
    /\ pc = "formatted"
    /\ \E i, j \in DOMAIN enriched :
         /\ enriched[i].on_land /\ Contained(enriched[i].pos)
         /\ ~enriched[j].on_land /\ ~Contained(enriched[j].pos)
         /\ enriched[j].country # NA

(* C3, as stated: every record whose nearest place has a country code, lies
   within 150 km of it, and whose resolved country is unset or differs from
   the place's country ends with the place's country. *)
C3_OverrideAlways ==
    Reached("reconciled") =>
        \A i \in DOMAIN hist["reconciled"] :
            LET pre == hist["city"][i]
                post == hist["reconciled"][i]
            IN  ( /\ pre.nearest_city_iso_a2 # NA
                  /\ pre.citydist_m # NoDist
                  /\ pre.citydist_m <= 150 * 1000
                  /\ (pre.country = NA
                        \/ pre.country # CountryOfCode(pre.nearest_city_iso_a2)) )
                => post.country = CountryOfCode(pre.nearest_city_iso_a2)

(* C3, amended: the override happens when, in addition, the country layer
   has an iso_a2 column in which the place's country code occurs; the
   finalized country is then the name the layer gives for that code. *)
C3_OverrideWhenCodeMapped ==
    Reached("reconciled") =>
        \A i \in DOMAIN hist["reconciled"] :
            LET pre == hist["city"][i]
                post == hist["reconciled"][i]
                iso == pre.nearest_city_iso_a2
            IN  ( /\ iso # NA
                  /\ pre.citydist_m # NoDist
                  /\ pre.citydist_m <= 150 * 1000
                  /\ hasIso0
                  /\ \E k \in DOMAIN admin0 : admin0[k].iso_a2 = iso
                  /\ (pre.country = NA \/ pre.country # CountryOfCode(iso)) )
                => post.country = CountryOfCode(iso)

C3_Witness ==
    /\ pc = "reconciled"
    /\ \E i \in DOMAIN merged :
         LET pre == hist["city"][i]
         IN  /\ pre.nearest_city_iso_a2 # NA
             /\ pre.citydist_m = 150 * 1000
             /\ pre.country # NA
             /\ pre.country # CountryOfCode(pre.nearest_city_iso_a2)
             /\ merged[i].country = CountryOfCode(pre.nearest_city_iso_a2)

(* C4: reconciliation leaves country unchanged when the nearest place is
   farther than 150 km, when there is no nearest place or no distance, or
   when the place's country agrees with the resolved country. *)
C4_NoOverrideOtherwise ==
    Reached("reconciled") =>
        \A i \in DOMAIN hist["reconciled"] :
            LET pre == hist["city"][i]
                post == hist["reconciled"][i]
            IN  ( \/ pre.nearest_city_iso_a2 = NA
                  \/ pre.citydist_m = NoDist
                  \/ pre.citydist_m > 150 * 1000
                  \/ pre.country = CountryOfCode(pre.nearest_city_iso_a2) )
                => post.country = pre.country

C4_Witness ==
    /\ pc = "reconciled"
    /\ hasIso0
    /\ \E i \in DOMAIN merged :
         LET pre == hist["city"][i]
         IN  /\ pre.citydist_m > 150 * 1000
             /\ pre.country # NA
             /\ pre.nearest_city_iso_a2 \in DOMAIN code_to_country
             /\ pre.country # code_to_country[pre.nearest_city_iso_a2]
             /\ merged[i].country = pre.country

(* C5: a point contained in no country polygon gets, when the country layer
   is non-empty, the name of a country polygon at minimum distance, the same
   one on every row of its epiid, and stays flagged offshore. *)
C5_NearestCountryOffshore ==
    Reached("country") =>
        \A i \in DOMAIN hist["country"] :
            LET row == hist["country"][i]
            IN  (~Contained(row.pos) /\ admin0 # <<>>) =>
                  /\ row.offshore
                  /\ \E k \in DOMAIN admin0 :
                        /\ admin0[k].country = row.country
                        /\ \A j \in DOMAIN admin0 :
                              PolyDistM(row.pos, admin0[k]) <= PolyDistM(row.pos, admin0[j])
                  /\ \A j \in DOMAIN hist["country"] :
                        hist["country"][j].epiid = row.epiid
                            => hist["country"][j].country = row.country
                  /\ pc = "returned" =>
                        \A j \in DOMAIN out : out[j].epiid = row.epiid => out[j].offshore

C5_Witness ==
    /\ pc = "country"
    /\ Len(admin0) = 2
    /\ \E i \in DOMAIN merged :
         /\ ~Contained(merged[i].pos)
         /\ merged[i].offshore
         /\ merged[i].country = admin0[2].country
         /\ PolyDistM(merged[i].pos, admin0[2]) < PolyDistM(merged[i].pos, admin0[1])

(* C6: when admin_region is re-derived after reconciliation and the
   admin-region layer holds a feature of the resolved country, the region
   assigned belongs to the resolved country. *)
C6_RederivedRegionInCountry ==
    Reached("refixed") =>
        \A i \in DOMAIN hist["refixed"] :
            LET pre == hist["reconciled"][i]
                post == hist["refixed"][i]
            IN  ( /\ hasIso1
                  /\ pre.admin1 = NA
                  /\ post.country # NA
                  /\ \E k \in DOMAIN admin1 :
                        admin1[k].iso_a2 = IsoOfCountry(post.country) )
                => \E k \in DOMAIN admin1 :
                        /\ admin1[k].iso_a2 = IsoOfCountry(post.country)
                        /\ admin1[k].admin1 = post.admin1

(* C7: for an on-land record with a nearest place P the text is exactly
   "D km C of P", then ", <admin_region>" and ", <country>" for each of the
   two that is known. *)
C7_OnLandText ==
    Reached("composed") =>
        \A i \in DOMAIN hist["composed"] :
            LET row == hist["composed"][i]
            IN  (~row.offshore /\ row.nearest_city # NA) =>
                    Render(row.location_text) =
                        ToString(ShownKm(row)) \o " km " \o ShownCompass(row)
                            \o " of " \o row.nearest_city
                            \o (IF row.admin1 # NA THEN ", " \o row.admin1 ELSE "")
                            \o (IF row.country # NA THEN ", " \o row.country ELSE "")

(* C8: for an offshore record with a nearest place the text is
   "D km C of <admin_region> coast" when the region is known, otherwise
   "D km C of <country> coast" when the country is known; no maritime zone
   is ever resolved, so nothing is appended. *)
C8_OffshoreText ==
    Reached("composed") =>
        \A i \in DOMAIN hist["composed"] :
            LET row == hist["composed"][i]
                lead == ToString(ShownKm(row)) \o " km " \o ShownCompass(row) \o " of "
            IN  (row.offshore /\ row.nearest_city # NA) =>
                    /\ row.admin1 # NA =>
                          Render(row.location_text) = lead \o row.admin1 \o " coast"
                    /\ (row.admin1 = NA /\ row.country # NA) =>
                          Render(row.location_text) = lead \o row.country \o " coast"

(* C9: the composer never raises: every row gets either a text or null, and
   null whenever the record has no nearest place (no name or no
   coordinates). *)
C9_ComposerTotal ==
    /\ Reached("refixed") /\ pc # "refixed" => Reached("composed")
    /\ Reached("composed") =>
        /\ Len(hist["composed"]) = Len(hist["refixed"])
        /\ \A i \in DOMAIN hist["composed"] :
            LET row == hist["composed"][i]
            IN  /\ (row.nearest_city = NA \/ row.city_pos = NoPos)
                    => row.location_text = NoText
                /\ row.location_text # NoText => Len(Render(row.location_text)) > 0

C9_Witness ==
    /\ pc = "composed"
    /\ \E i, j \in DOMAIN merged :
         /\ merged[i].nearest_city = NA /\ merged[i].location_text = NoText
         /\ merged[j].country # NA /\ merged[j].admin1 # NA

(* C10, as stated: an offshore record lying inside a maritime-zone polygon
   has maritime_country set to that zone's country. *)
C10_MaritimeCountrySet ==
    pc = "returned" =>
        \A i \in DOMAIN out :
            \A k \in DOMAIN EezLayer :
                (out[i].offshore /\ out[i].pos \in EezLayer[k].cells)
                    => Get(out[i], "eez_country", NA) = EezLayer[k].country

(* C10, amended: enrich_geocoding resolves no maritime zone and no coast
   distance: no returned row, on land or offshore, carries a maritime
   country or a distance to the coast, and enrich_and_format adds none. *)
C10_NoMaritimeFields ==
    /\ pc \in {"returned", "formatted"} =>
        \A i \in DOMAIN out :
            /\ Get(out[i], "eez_country", NA) = NA
            /\ Get(out[i], "maritime_country", NA) = NA
            /\ Get(out[i], "distance_to_coast_km", NoDist) = NoDist
    /\ pc = "formatted" =>
        \A i \in DOMAIN enriched :
            /\ Get(enriched[i], "eez_country", NA) = NA
            /\ Get(enriched[i], "maritime_country", NA) = NA
            /\ Get(enriched[i], "distance_to_coast_km", NoDist) = NoDist

C10_Witness ==
    /\ pc = "formatted"
    /\ \E i, j \in DOMAIN out :
         /\ out[i].offshore
         /\ \E k \in DOMAIN EezLayer : out[i].pos \in EezLayer[k].cells
         /\ ~out[j].offshore

(* C11, as stated: when a reference layer is missing at load time the
   enrichment of a non-empty batch still completes, no exception aborting
   it. *)
C11_MissingLayerDegrades ==
    (missing # {} /\ eq # <<>> /\ pc # "start") => pc # "raised"

(* C11, amended: when the file of a reference layer is missing and the batch
   is not empty, enrich_geocoding raises FileNotFoundError while loading the
   layers: no lookup has run and no record is returned.  An empty batch is
   returned as it is, without any layer being loaded. *)
C11_MissingLayerRaises ==
    /\ (missing # {} /\ eq # <<>> /\ pc # "start") =>
            /\ pc = "raised"
            /\ err = "FileNotFoundError"
            /\ merged = <<>> /\ hist = <<>> /\ out = <<>> /\ enriched = <<>>
    /\ (eq = <<>> /\ pc # "start") =>
            /\ pc \in {"returned", "formatted"}
            /\ err = "" /\ out = <<>>

C11_Witness ==
    /\ pc = "raised"
    /\ err = "FileNotFoundError"
    /\ missing = {"admin1"}
    /\ Len(eq) = 2
    /\ admin0 # <<>> /\ cities # <<>>

(* C12: when the primary nearest-place lookup raises, enrich_geocoding takes
   the manual fallback and returns one row for every input point with the
   nearest-place fields null, instead of raising. *)
C12_FallbackRecovers ==
    fellback =>
        /\ pc # "raised"
        /\ pc = "returned" =>
              \A i \in DOMAIN eq : \E k \in DOMAIN out : out[k].epiid = eq[i].epiid

(* C13: with an empty populated-place working set, and the lookup answered
   (the raising lookup is C12), every record gets a null nearest place, no
   distance, an unchanged country, a null composed text, and no exception
   leaves the enrichment from the lookup on. *)
C13_EmptyPlacesGiveNull ==
    (cities = <<>> /\ ~fellback /\ Reached("normalized")) =>
        /\ pc # "raised"
        /\ Reached("city") =>
              \A i \in DOMAIN hist["city"] :
                  /\ hist["city"][i].nearest_city = NA
                  /\ hist["city"][i].nearest_city_iso_a2 = NA
                  /\ hist["city"][i].city_pos = NoPos
                  /\ hist["city"][i].citydist_m = NoDist
        /\ Reached("reconciled") =>
              \A i \in DOMAIN hist["reconciled"] :
                  hist["reconciled"][i].country = hist["city"][i].country
        /\ Reached("composed") =>
              \A i \in DOMAIN hist["composed"] :
                  hist["composed"][i].location_text = NoText
        /\ pc \in {"returned", "formatted"} =>
              /\ Len(out) = Len(hist["normalized"])
              /\ \A i \in DOMAIN out :
                    out[i].nearest_city = NA /\ out[i].location_text = NoText

C13_Witness ==
    /\ pc = "returned"
    /\ cities = <<>>
    /\ "cities" \notin missing
    /\ Len(out) = 2
    /\ \E i \in DOMAIN out : out[i].country # NA /\ out[i].admin1 # NA
    /\ \A i \in DOMAIN out : out[i].nearest_city = NA /\ out[i].location_text = NoText

(* C14: the rows returned for a record are those enrich_geocoding returns
   for that record alone against the same layers, whichever other records
   the batch holds and in whatever order; the returned frame is the
   concatenation of these in input order. *)
C14_PerPointIndependence ==
    (pc = "returned" /\ eq # <<>>) =>
        /\ out = FlatMap(enrich_geocoding_one, eq)
        /\ \A i \in DOMAIN eq :
              SelectSeq(out, LAMBDA r : r.epiid = eq[i].epiid) = enrich_geocoding_one(eq[i])

C14_Witness ==
    /\ pc = "returned"
    /\ Len(eq) = 2 /\ Len(out) = 2
    /\ eq[1].epiid > eq[2].epiid
    /\ out[1].country # out[2].country
    /\ out[1].nearest_city # out[2].nearest_city
    /\ out[1].offshore # out[2].offshore
    /\ out[1].location_text # NoText /\ out[2].location_text # NoText

(* C15: every place of the working set, hence every place returned as a
   nearest place, is a row of the places file of feature class P whose
   population is known and at least 500; a row with a missing population or
   one below 500 is never in the working set. *)
C15_WorkingSetFiltered ==
    pc \in {"loaded", "looked"} =>
        /\ \A i \in DOMAIN cities :
              \E k \in DOMAIN places :
                  /\ places[k].name = cities[i].name
                  /\ places[k].pos = cities[i].pos
                  /\ places[k].feature_class = "P"
                  /\ places[k].population # NoPop
                  /\ places[k].population >= 500
        /\ \A k \in DOMAIN places :
              (places[k].population = NoPop \/ places[k].population < 500)
                  => \A i \in DOMAIN cities : cities[i].name # places[k].name
        /\ pc = "looked" =>
              \A i \in DOMAIN near_city :
                  near_city[i].name # NA =>
                      \E k \in DOMAIN places :
                          /\ places[k].name = near_city[i].name
                          /\ places[k].feature_class = "P"
                          /\ places[k].population # NoPop
                          /\ places[k].population >= 500

C15_Witness ==
    /\ pc = "looked"
    /\ eq[1].pos = 1
    /\ \E k \in DOMAIN places : places[k].name = "Kfar"
    /\ near_city[1].name = "Paphos"
    /\ near_city[1].citydist_m = UnitM

\* the clockwise label list of a resolution, starting at N
LabelList(n) ==
    IF n = 8 THEN << "N", "NE", "E", "SE", "S", "SW", "W", "NW" >>
    ELSE << "N", "NNE", "NE", "ENE", "E", "ESE", "SE", "SSE",
            "S", "SSW", "SW", "WSW", "W", "WNW", "NW", "NNW" >>

\* k-th sector of n, in 1/100 degree: width 360/n, centred on k * 360/n
InSector(b, k, n) ==
    LET w == (360 * 100) \div n
        lo == k * w - w \div 2
        hi == k * w + w \div 2
    IN  IF k = 0 THEN b >= 360 * 100 - w \div 2 \/ b < hi
        ELSE lo <= b /\ b < hi

(* C16: for every bearing b of [0, 360) and resolution n in {8, 16} the
   label is entry floor((b + 180/n) / (360/n)) mod n of the clockwise list
   starting at N, which is the one sector of width 360/n centred on its
   direction that holds b (N covering both ends of the circle); the label
   taken for location_text is the 16-point one. *)
C16_CompassSectors ==
    pc \in {"labelled", "text"} =>
        LET n == resolution
            k == ((theta * n + 180 * 100) \div (360 * 100)) % n
        IN  /\ label = LabelList(n)[k + 1]
            /\ InSector(theta, k, n)
            /\ \A j \in 0 .. (n - 1) : InSector(theta, j, n) => j = k
            /\ pc = "text" => n = 16

C16_Witness ==
    /\ pc = "labelled"
    /\ resolution = 16
    /\ theta = 360 * 100 - 1125
    /\ label = "N"

\* the epiids of the rows handed to the last append, and the first row
\* handed in for an epiid
NewIds == {new_df.rows[i].epiid : i \in DOMAIN new_df.rows}

FirstNew(e) == new_df.rows[Min({i \in DOMAIN new_df.rows : new_df.rows[i].epiid = e})]

(* C17: after append_to_geojson every epiid occurs at most once among the
   features of the file, whatever the batch and the file before held. *)
C17_UniqueEpiid ==
    pc = "written" =>
        \A i, j \in DOMAIN file :
            /\ "epiid" \in DOMAIN file[i]
            /\ (i # j => file[i].epiid # file[j].epiid)

C17_Witness ==
    /\ pc = "written"
    /\ Len(existing) = 2 /\ existing[1].epiid = existing[2].epiid
    /\ Len(new_df.rows) = 2 /\ new_df.rows[1].epiid = new_df.rows[2].epiid
    /\ new_df.rows[1].epiid = existing[1].epiid
    /\ Len(file) = 1

(* C18: for an epiid both in the batch and in the file before, the feature
   kept carries the values of the batch (its first row for that epiid, the
   country normalized), not the existing ones; the features that come from
   the batch precede those carried over. *)
C18_UpsertNewWins ==
    pc = "written" =>
        /\ \A e \in NewIds :
              \E k \in DOMAIN file :
                  /\ file[k].epiid = e
                  /\ file[k].latitude = FirstNew(e).latitude
                  /\ file[k].city = FirstNew(e).city
                  /\ file[k].area = FirstNew(e).area
                  /\ file[k].on_land = FirstNew(e).on_land
                  /\ file[k].country =
                        IF offender(FirstNew(e).country) THEN "Cyprus"
                        ELSE FirstNew(e).country
        /\ \A a, b \in DOMAIN file :
              (a < b /\ file[b].epiid \in NewIds) => file[a].epiid \in NewIds

C18_Witness ==
    /\ pc = "written"
    /\ Len(file) = 2
    /\ file[1].epiid \in NewIds /\ file[2].epiid \notin NewIds
    /\ \E j \in DOMAIN existing :
          /\ existing[j].epiid = file[1].epiid
          /\ existing[j].latitude # file[1].latitude
          /\ FirstNew(file[1].epiid).latitude = file[1].latitude

(* C19: after append_to_geojson every feature of the file, from the batch
   or carried over, has only properties of the minimal schema. *)
C19_OnlyMinimalProperties ==
    pc = "written" =>
        \A i \in DOMAIN file : DOMAIN file[i] \subseteq ALLOWED_KEYS

(* C20: starting from a file in which no country is a Cyprus alias, after
   any sequence of enrich_and_format + append_to_geojson runs no feature's
   country is a Cyprus alias other than 'Cyprus': the validator finds no
   offender. *)
C20_NoCyprusAliasRemains ==
    \A i \in DOMAIN file : ~offender(file[i].country)

C20_Witness ==
    /\ pc = "written"
    /\ existing # <<>>
    /\ \E i \in DOMAIN out :
          /\ out[i].country = "N. Cyprus"
          /\ \E k \in DOMAIN file :
                file[k].epiid = out[i].epiid /\ file[k].country = "Cyprus"
    /\ \E k \in DOMAIN file : file[k].country = "Israel"

(* C21: every Cyprus normalisation of the repository (normalize_cyprus,
   clean_eq_data._norm_country, and _norm_country / _norm_country_write of
   the top-level update_earthquake_data.py) returns 'Cyprus' for exactly the
   same inputs: the value 'Cyprus' itself and the values whose stripped,
   lower-cased form is in the alias set the validator checks. *)
C21_NormalizersAgree ==
    (pc = "done" /\ call.fn \in {"normalize_cyprus", "_norm_country",
                                 "legacy._norm_country", "legacy._norm_country_write"})
        => (ret[1] = "Cyprus"
              <=> (call.args[1] = "Cyprus"
                   \/ (call.args[1] # NA /\ StripLower(call.args[1]) \in ALIASES)))

(* C22: normalize_cyprus returns 'Cyprus' for every value whose stripped,
   lower-cased form is in CYPRUS_ALIASES, returns every other value (missing
   and blank ones included) unchanged, and applied to its own result returns
   that result. *)
C22_NormalizeCyprusIdempotent ==
    (call # <<>> /\ call.fn = "normalize_cyprus") =>
        /\ pc \in {"done", "again"} =>
              ret[1] = (IF call.args[1] # NA /\ StripLower(call.args[1]) \in CYPRUS_ALIASES
                        THEN "Cyprus" ELSE call.args[1])
        /\ pc = "again" => ret[2] = ret[1]

C22_Witness ==
    /\ pc = "again"
    /\ call # <<>> /\ call.fn = "normalize_cyprus"
    /\ call.args[1] = " TRNC"
    /\ ret = << "Cyprus", "Cyprus" >>

\* the normalised (country, area) pair has an entry in the table
HasEntry(country, area) ==
    /\ AreaKeyCountry(country) \in DOMAIN AreaMapping
    /\ AreaKeyArea(area) \in DOMAIN AreaMapping[AreaKeyCountry(country)]

Bucket(country, area) == AreaMapping[AreaKeyCountry(country)][AreaKeyArea(area)]

Blank(x) == x = NA \/ StripLower(x) = ""

(* C23: aggregate_area returns the bucket of the table when the normalised
   (country, area) pair has an entry and the area unchanged otherwise (missing
   and blank areas as given); applied twice with the same country it gives
   the result of applying it once. *)
C23_TableOrUnchanged ==
    (call # <<>> /\ call.fn = "aggregate_area") =>
        /\ pc \in {"done", "again"} =>
              ret[1] = (IF ~Blank(call.args[2]) /\ HasEntry(call.args[1], call.args[2])
                        THEN Bucket(call.args[1], call.args[2])
                        ELSE call.args[2])
        /\ pc = "again" => ret[2] = ret[1]

(* C23, amended: as above, except that for the country Cyprus (or one of its
   aliases) the areas 'akrotiri sovereign base area' and 'dhekelia cantonment',
   which the table does not hold, give 'Cyprus'. *)
C23_TableOrSbaOrUnchanged ==
    (call # <<>> /\ call.fn = "aggregate_area") =>
        /\ pc \in {"done", "again"} =>
              ret[1] = (IF Blank(call.args[2]) THEN call.args[2]
                        ELSE IF HasEntry(call.args[1], call.args[2])
                        THEN Bucket(call.args[1], call.args[2])
                        ELSE IF AreaKeyCountry(call.args[1]) = "cyprus"
                                /\ NormArea(call.args[2]) \in {"akrotiri sovereign base area",
                                                               "dhekelia cantonment"}
                        THEN "Cyprus"
                        ELSE call.args[2])
        /\ pc = "again" => ret[2] = ret[1]

C23_Witness ==
    /\ pc = "again"
    /\ call # <<>> /\ call.fn = "aggregate_area"
    /\ call.args = << "N. Cyprus", "Dhekelia Cantonment" >>
    /\ ret = << "Cyprus", "Cyprus" >>

\* the stored feature of an epiid, <<>> when the file holds none
StoredOf(feats, e) == SelectSeq(feats, LAMBDA o : o["epiid"] = e)

(* C24: compute_change_stats counts a record of the latest window as updated
   exactly when its epiid is stored and at least one of latitude, longitude,
   magnitude, depth, felt? differs from the stored value, and as new exactly
   when its epiid is not stored; no record is counted twice. *)
C24_NewAndUpdatedCounts ==
    (pc = "done" /\ call.fn = "compute_change_stats") =>
        LET latest == call.args[1]
            feats == call.args[2]
            IsNew(i) == StoredOf(feats, latest[i]["epiid"]) = <<>>
            IsUpdated(i) ==
                /\ ~IsNew(i)
                /\ \E k \in DOMAIN fields :
                      latest[i][fields[k]] # StoredOf(feats, latest[i]["epiid"])[1][fields[k]]
        IN  /\ ret[1][1] = Cardinality({i \in DOMAIN latest : IsNew(i)})
            /\ ret[1][2] = Cardinality({i \in DOMAIN latest : IsUpdated(i)})
            /\ ret[1][1] + ret[1][2] <= Len(latest)

(* C25: for every record enrich_and_format returns whose area is a
   non-blank string, no comma-delimited segment of location_text after the
   first equals that area (the validator's ", area," / ", area" test). *)
C25_NoAreaSegment ==
    pc = "formatted" =>
        \A i \in DOMAIN enriched :
            ~Blank(enriched[i].area) =>
                \A k \in DOMAIN enriched[i].location_text :
                    k >= 2 => enriched[i].location_text[k] # enriched[i].area

C25_Witness ==
    /\ pc = "formatted"
    /\ \E i \in DOMAIN enriched :
          /\ enriched[i].area = "HaZafon"
          /\ \E k \in DOMAIN out[i].location_text :
                k >= 2 /\ out[i].location_text[k] = "HaZafon"
          /\ enriched[i].location_text # NoText

\* two frames hold the same records with the same offshore flags
SameFlags(f, g) ==
    /\ Len(f) = Len(g)
    /\ \A i \in DOMAIN f : f[i].epiid = g[i].epiid /\ f[i].offshore = g[i].offshore

(* C26: country reconciliation and the admin-region re-derivation never
   change a record's offshore flag: a point in no country polygon stays
   offshore and a contained point stays on land, whatever happens to the
   country, and on_land of the formatted record is the negated flag. *)
C26_OffshoreFlagKept ==
    /\ Reached("reconciled") => SameFlags(hist["city"], hist["reconciled"])
    /\ Reached("refixed") =>
          /\ SameFlags(hist["reconciled"], hist["refixed"])
          /\ \A i \in DOMAIN hist["refixed"] :
                hist["refixed"][i].offshore = ~Contained(hist["refixed"][i].pos)
    /\ pc = "formatted" =>
          \A i \in DOMAIN enriched : enriched[i].on_land = Contained(enriched[i].pos)

\* an offshore record and a contained record, both with the country overridden
C26_Witness ==
    /\ pc = "formatted"
    /\ Reached("refixed")
    /\ \E i \in DOMAIN hist["refixed"] :
          /\ hist["refixed"][i].offshore
          /\ hist["city"][i].country # hist["reconciled"][i].country
          /\ ~enriched[i].on_land
    /\ \E i \in DOMAIN hist["refixed"] :
          /\ ~hist["refixed"][i].offshore
          /\ hist["city"][i].country # hist["reconciled"][i].country
          /\ enriched[i].on_land

\* the Israeli names of the admin regions
IsraeliName(a) ==
    CASE a = "Northern" -> "HaZafon"
      [] a = "Southern" -> "HaDarom"
      [] a = "Central" -> "HaMerkaz"
      [] a = "Jerusalem" -> "Yerushalayim"
      [] OTHER -> a

(* C27: admin-region labels are normalised once, after the admin region is
   resolved and before the country is reconciled, by the country the record
   has at that point: for Israel the four English names become the Hebrew
   ones; every other value, and every value of a record whose country is not
   Israel at that point, is unchanged, also when reconciliation makes the
   country Israel afterwards. *)
C27_Admin1NormalizedOnce ==
    /\ Reached("normalized") =>
          /\ Reached("admin1")
          /\ Len(hist["normalized"]) = Len(hist["admin1"])
          /\ \A i \in DOMAIN hist["normalized"] :
                hist["normalized"][i].admin1 =
                    (IF hist["admin1"][i].country = "Israel"
                     THEN IsraeliName(hist["admin1"][i].admin1)
                     ELSE hist["admin1"][i].admin1)
    /\ Reached("city") => Reached("normalized")
    /\ Reached("reconciled") =>
          /\ Reached("city")
          /\ Len(hist["reconciled"]) = Len(hist["normalized"])
          /\ \A i \in DOMAIN hist["reconciled"] :
                hist["reconciled"][i].admin1 = hist["normalized"][i].admin1

\* a record normalised as Israeli, and a record that became Israeli only by
\* reconciliation and keeps the English name
C27_Witness ==
    /\ Reached("reconciled")
    /\ \E i \in DOMAIN hist["reconciled"] :
          /\ hist["admin1"][i].country = "Israel"
          /\ hist["admin1"][i].admin1 = "Northern"
          /\ hist["reconciled"][i].admin1 = "HaZafon"
    /\ \E i \in DOMAIN hist["reconciled"] :
          /\ hist["admin1"][i].country = "Cyprus"
          /\ hist["admin1"][i].admin1 = "Northern"
          /\ hist["reconciled"][i].country = "Israel"
          /\ hist["reconciled"][i].admin1 = "Northern"

\* "city, country", or the known one of the two, or null
CityCountry(city, country) ==
    (IF city = NA THEN <<>> ELSE <<city>>) \o (IF country = NA THEN <<>> ELSE <<country>>)

\* a text without its later segments that equal the admin region or the area
WithoutRegion(t, a1, area) ==
    IF t = NoText THEN t
    ELSE <<t[1]>> \o SelectSeq(Tail(t), LAMBDA seg : (Blank(a1) \/ seg # a1)
                                                      /\ (Blank(area) \/ seg # area))

(* C28: after enrich_and_format a record's location_text is the composer's
   text whenever the composer produced one, and the fallback "city, country"
   (or the known one of the two) when it returned null; it is null only when
   city and country are both null. *)
C28_ComposerTextOrFallback ==
    pc = "formatted" =>
        \A i \in DOMAIN enriched :
            /\ enriched[i].location_text =
                  (IF out[i].location_text # NoText THEN out[i].location_text
                   ELSE CityCountry(enriched[i].city, enriched[i].country))
            /\ enriched[i].location_text = NoText
                  => (enriched[i].city = NA /\ enriched[i].country = NA)

(* C28, amended: the text is the composer's text, or the fallback when the
   composer returned null, in both cases without the segments that repeat the
   admin region or the aggregated area; it is null exactly when city and
   country are both null. *)
C28_StrippedComposerTextOrFallback ==
    pc = "formatted" =>
        \A i \in DOMAIN enriched :
            /\ enriched[i].location_text =
                  WithoutRegion(IF out[i].location_text # NoText THEN out[i].location_text
                                ELSE CityCountry(enriched[i].city, enriched[i].country),
                                out[i].admin1, enriched[i].area)
            /\ enriched[i].location_text = NoText
                  <=> (enriched[i].city = NA /\ enriched[i].country = NA)

\* a composed text that lost its admin-region segment
C28_Witness ==
    /\ pc = "formatted"
    /\ \E i \in DOMAIN enriched :
          /\ out[i].location_text # NoText
          /\ Len(out[i].location_text) = 3
          /\ enriched[i].location_text = << out[i].location_text[1], enriched[i].country >>

\* the compass label of the direction in which the record lies as seen from
\* its nearest place; a record at the place itself has no direction
SeenFromPlace(row) ==
    IF row.pos > row.city_pos THEN {"N"}
    ELSE IF row.pos < row.city_pos THEN {"S"}
    ELSE {"N", "S"}

(* C29: in a composed location_text "D km C of P", C is the compass direction
   in which the event lies as seen from the nearest place P: an event due
   north of P is described as N of P. *)
C29_DirectionSeenFromPlace ==
    Reached("composed") =>
        \A i \in DOMAIN hist["composed"] :
            LET row == hist["composed"][i]
            IN  row.location_text # NoText =>
                    \E card \in SeenFromPlace(row) :
                        LET head == ToString(ShownKm(row)) \o "km " \o card \o " of "
                        IN  row.location_text[1] \in
                                { head \o row.nearest_city,
                                  head \o row.admin1 \o " coast",
                                  head \o row.country \o " coast" }

====
